---------------------------- MODULE Spec2Model ----------------------------
(***************************************************************************)
(* Model of Play4's prefetching queue manager (play4/fast_queue_manager.py),*)
(* of the session progress it drives (play4/enhanced_session_manager.py)    *)
(* and of the metadata cache (play4/metadata.py).                           *)
(*                                                                          *)
(* Threads: the playback loop (main.py) calling get_next_song, and          *)
(* analysis_workers background workers running analyze_metadata.  Every     *)
(* `with self.queue_lock:` block is one step: it can be taken only when the *)
(* lock is free (Acquire), it does the block's body, and it leaves the lock *)
(* as the end of the block leaves it.  What a thread does outside the lock  *)
(* is a step of its own.  The resolver call                                 *)
(* (metadata_fetcher.get_metadata) has three outcomes: it returns a         *)
(* descriptor, it raises, or it never returns (no step is taken).           *)
(***************************************************************************)
EXTENDS Integers, Sequences, FiniteSets, TLC

(***************************************************************************)
(* Bounds of the model.                                                     *)
(***************************************************************************)
\* Spec: largest number of locators in a session's video list, of local
\* files found by the scan, of star levels (priority tiers) in
\* config.music_dirs, and largest config.max_workers.
MaxVideos == 1
MaxLocal == 1
MaxStar == 1
MaxWorkers == 2
\* WideSpec: the same for the runs that need two backlog items.
WideVideos == 2
WideLocal == 1
WideWorkers == 2
\* FairSpec and HangSpec: the same for the liveness runs.
LiveVideos == 1
LiveLocal == 0
LiveWorkers == 1
\* LocalSpec: the number of local files and of star levels for the runs
\* about the order of the local queue (backlog and workers as in FairSpec).
LocalFiles == 2
LocalStar == 2
\* SessionSpec, SelectSpec and SweepSpec: the number of session files found in the
\* sessions directory at start, the days their last use lies back, the
\* number of distinct locators and the length of a video list, the plays
\* recorded on a session, and the largest max_age_days and keep_recent
\* passed to cleanup_old_sessions.
MaxStored == 1
SelectStored == 2
SweepStored == 3
SessionDays == 2
MaxLocs == 2
MaxListLen == 2
MaxPlays == 2
MaxAgeDays == 2
MaxKeep == 2
\* CacheSpec and RetainSpec: the number of locators the cache is asked about, the length
\* of a descriptor's genre list, the days the run lasts, and the
\* days the oldest row of the database goes back at start.
MaxUrls == 2
MaxGenres == 2
CacheDays == 1
RetainDays == 1

Min(a, b) == IF a <= b THEN a ELSE b
Max(a, b) == IF a >= b THEN a ELSE b

\* FastQueueManager.__init__, line 67: at most 3 analysis workers
WorkerCap == 3

\* line 67: self.analysis_workers = min(3, config.max_workers)
analysis_workers(max_workers) == Min(WorkerCap, max_workers)

Workers == 1 .. WorkerCap
VideoIds == 1 .. Max(MaxVideos, Max(WideVideos, LiveVideos))
(***************************************************************************)
(* SongMetadata (metadata.py).  title/artist/album are abstracted to        *)
(* `named` (all three differ from their "Unknown ..." placeholders) and     *)
(* confidence to `confident` (confidence >= 0.7).                           *)
(***************************************************************************)
\* SongMetadata(): every field at its default.
DefaultMetadata ==
    [named |-> FALSE, duration |-> 0, confident |-> FALSE,
     source |-> "YTDLP", acoustid_attempted |-> FALSE]

\* SongMetadata.is_complete_metadata
is_complete_metadata(m) ==
    /\ m.named
    /\ m.duration > 0
    /\ (m.confident \/ m.source = "ACOUSTID")

\* The descriptors metadata_fetcher.get_metadata returns in this model: a
\* fingerprint match with every field resolved, and a basic descriptor of low
\* confidence returned without a fingerprint lookup (enhancement disabled).
ResolverResults ==
    { [named |-> TRUE, duration |-> 1, confident |-> TRUE,
       source |-> "ACOUSTID", acoustid_attempted |-> TRUE],
      [named |-> TRUE, duration |-> 1, confident |-> FALSE,
       source |-> "YTDLP", acoustid_attempted |-> FALSE] }

(***************************************************************************)
(* QueueItem.  An item is referred to by its immutable part; the mutable    *)
(* fields of the YouTube items live in the functions below, indexed by the  *)
(* item's position n in the session's video list.  Local items are created  *)
(* with metadata_ready=True and are never touched by a worker.              *)
(***************************************************************************)
LocalItem(k, p) == [source_type |-> "local", n |-> k, priority |-> p]
YoutubeItem(k) == [source_type |-> "youtube", n |-> k, priority |-> 0]

VARIABLES
    local_queue,          \* self.local_queue
    youtube_queue,        \* self.youtube_queue (the backlog)
    ready_queue,          \* self.ready_queue (the ready buffer)
    metadata,             \* item.metadata of YouTube item n: <<>> is None
    metadata_ready,       \* item.metadata_ready
    acoustid_analyzed,    \* item.acoustid_analyzed
    analysis_in_progress, \* item.analysis_in_progress
    is_loading_playlists, \* self.is_loading_playlists
    is_analyzing,         \* self.is_analyzing
    local_files_exhausted,\* self.local_files_exhausted
    stats,                \* self.stats
    queue_lock,           \* holders of self.queue_lock: {} when free
    current_session,      \* the active SessionData: <<>> is None
    pc,                   \* position of each worker in analyze_metadata
    item_to_analyze,      \* the item a worker has in _analyze_item: 0 outside it
    fetched,              \* _analyze_item's local `metadata`: <<>> when unset
    counted,              \* each worker's read of stats['metadata_analyzed']
    main_pc,              \* position of the main thread in _initialize_session,
                          \* get_next_song or get_stats
    result,               \* value returned by the last get_next_song: <<>> is None
    initialized,          \* initialize() has run
    returned,             \* history: every item get_next_song has returned
    raised,               \* history: items whose resolver call raised
    cleaned,              \* history: cleanup() has been called
    session_files,        \* the files of SessionManager.sessions_dir, by session id
    clock,                \* time.time()
    call,                 \* the call in progress or made last, with its arguments
    ret,                  \* what that call returned: <<>> is None
    seen,                 \* history: the get_stats values of the states passed
                          \* through since a get_stats call in progress took the lock
    invoked,              \* history: the resolver calls begun for YouTube item n
    cache_db,             \* the metadata table of MetadataCache.db_path, by url
    saved                 \* history: the descriptor last saved for a url: <<>> is none

vars == <<local_queue, youtube_queue, ready_queue, metadata, metadata_ready,
          acoustid_analyzed, analysis_in_progress, is_loading_playlists,
          is_analyzing, local_files_exhausted, stats, queue_lock,
          current_session, pc, item_to_analyze, fetched, counted, main_pc,
          result,
          initialized, returned, raised, cleaned,
          session_files, clock, call, ret, seen, invoked, cache_db, saved>>

items == <<metadata, metadata_ready, acoustid_analyzed, analysis_in_progress>>
queues == <<local_queue, youtube_queue, ready_queue>>
flags == <<is_loading_playlists, is_analyzing, local_files_exhausted>>
workerState == <<pc, item_to_analyze, fetched, counted>>
mainState == <<main_pc, result, returned>>
store == <<session_files, clock, call, ret>>
cache == <<cache_db, saved>>

(***************************************************************************)
(* Sequence helpers.                                                        *)
(***************************************************************************)
Range(s) == { s[i] : i \in 1 .. Len(s) }

\* list.pop(i), with i counted from 1
RemoveAt(s, i) == SubSeq(s, 1, i - 1) \o SubSeq(s, i + 1, Len(s))

\* number of positions of s holding x
Count(s, x) == Cardinality({ i \in 1 .. Len(s) : s[i] = x })

\* all sequences over S of length at most n
SeqsUpTo(S, n) == UNION { [1 .. k -> S] : k \in 0 .. n }

(***************************************************************************)
(* threading.Lock: `with self.queue_lock:` can be entered only when no      *)
(* thread holds the lock.                                                   *)
(***************************************************************************)
Acquire == queue_lock = {}

(***************************************************************************)
(* FastQueueManager.__init__                                                *)
(***************************************************************************)
ManagerInit ==
    /\ local_queue = <<>>
    /\ youtube_queue = <<>>
    /\ ready_queue = <<>>
    /\ metadata = [i \in VideoIds |-> <<>>]
    /\ metadata_ready = [i \in VideoIds |-> FALSE]
    /\ acoustid_analyzed = [i \in VideoIds |-> FALSE]
    /\ analysis_in_progress = [i \in VideoIds |-> FALSE]
    /\ is_loading_playlists = TRUE
    /\ is_analyzing = TRUE
    /\ local_files_exhausted = FALSE
    /\ stats = [local_files_found |-> 0, youtube_videos_loaded |-> 0,
                metadata_analyzed |-> 0, acoustid_analyzed |-> 0]
    /\ queue_lock = {}
    /\ current_session = <<>>
    /\ pc = [w \in Workers |-> "unstarted"]
    /\ item_to_analyze = [w \in Workers |-> 0]
    /\ fetched = [w \in Workers |-> <<>>]
    /\ counted = [w \in Workers |-> 0]
    /\ main_pc = "idle"
    /\ result = <<>>
    /\ initialized = FALSE
    /\ returned = <<>>
    /\ raised = {}
    /\ cleaned = FALSE

\* no call made yet
NoCall == [name |-> "none", turn |-> 0]

\* The manager after construction, with an empty sessions directory.
Init ==
    /\ ManagerInit
    /\ session_files = <<>>
    /\ clock = 0
    /\ call = NoCall
    /\ ret = <<>>
    /\ seen = {}
    /\ invoked = [i \in VideoIds |-> 0]
    /\ cache_db = <<>>
    /\ saved = <<>>


(***************************************************************************)
(* FastQueueManager.get_stats (lines 339-356): the dictionary a call builds *)
(* when no other thread takes a step between its reads.                     *)
(***************************************************************************)
get_stats ==
    [local_files_found |-> stats.local_files_found,
     youtube_videos_loaded |-> stats.youtube_videos_loaded,
     metadata_analyzed |-> stats.metadata_analyzed,
     acoustid_analyzed |-> stats.acoustid_analyzed,
     ready_buffer_size |-> Len(ready_queue),
     local_remaining |-> Len(local_queue),
     youtube_remaining |-> Len(youtube_queue),
     currently_analyzing |->
         Cardinality({ i \in 1 .. Len(youtube_queue) :
                         analysis_in_progress[youtube_queue[i].n] }),
     is_loading_playlists |-> is_loading_playlists,
     is_analyzing |-> is_analyzing,
     local_exhausted |-> local_files_exhausted]

\* What a step of the manager leaves of the session store and of the cache,
\* and what it adds to the histories: to that of a get_stats call in
\* progress the values of its new state, to that of the resolver calls the
\* call a worker begins by going from its claim to line 254.
Observed ==
    /\ UNCHANGED <<store, cache>>
    /\ seen' = IF main_pc = "stats" THEN seen \cup {get_stats'} ELSE seen
    /\ invoked' =
          [i \in VideoIds |->
              invoked[i]
                 + Cardinality({ w \in Workers :
                       /\ pc[w] # "resolving"
                       /\ pc'[w] = "resolving"
                       /\ item_to_analyze'[w] = i })]

(***************************************************************************)
(* FastQueueManager.initialize: _scan_local_files, _initialize_session      *)
(* (with _load_session_videos) and _start_metadata_analysis.  It runs on    *)
(* the main thread before any worker exists.                                *)
(***************************************************************************)
\* A scan that shuffles the found files without sorting them.
Shuffled(found) ==
    { q \in [1 .. Len(found) -> Range(found)] :
        \A i, j \in 1 .. Len(found) : i # j => q[i] # q[j] }

\* _scan_local_files, lines 146-147: the orders list.sort may leave for the
\* key (-priority, random.random()): every arrangement of the found items
\* with priorities non-increasing.
SortedByPriority(found) ==
    { q \in [1 .. Len(found) -> Range(found)] :
        /\ \A i, j \in 1 .. Len(found) : i # j => q[i] # q[j]
        /\ \A i \in 1 .. Len(found) - 1 : q[i].priority >= q[i + 1].priority }

\* SessionManager.create_session
create_session(total) ==
    [total_songs |-> total, current_index |-> 0, play_count |-> 0,
     current_url |-> 0]

\* SessionManager.load_session of a session persisted at offset idx
load_session(total, idx) ==
    [total_songs |-> total, current_index |-> idx, play_count |-> 0,
     current_url |-> 0]

\* videos[start_index:], line 293: the number of locators the slice leaves
\* out of a list of total; a negative start counts from the end of the list
SliceStart(total, start_index) ==
    IF start_index < 0 THEN Max(total + start_index, 0)
    ELSE Min(start_index, total)

\* _load_session_videos: one unresolved item per locator of videos[start_index:]
LoadSessionVideos(total, start_index) ==
    [k \in 1 .. (total - SliceStart(total, start_index)) |->
        YoutubeItem(SliceStart(total, start_index) + k)]

\* initialize() on a session of at most maxVideos locators that is new or
\* resumed at an offset recorded by an earlier run, not below lowest:
\* get_next_song records total_songs - (len(backlog) + len(ready buffer)),
\* which with every item but one in both collections is 1 - total_songs
InitializeAt(maxVideos, maxLocal, maxStar, maxWorkers, lowest) ==
    /\ ~initialized
    /\ main_pc = "idle"
    /\ \E total \in 0 .. maxVideos :
         \E resume \in BOOLEAN :
           \E idx \in Min(0, Max(lowest, 1 - total)) .. total :
             /\ resume \/ idx = 0
             /\ current_session' =
                  << IF resume THEN load_session(total, idx)
                               ELSE create_session(total) >>
             /\ youtube_queue' = LoadSessionVideos(total, idx)
    /\ \E stars \in SeqsUpTo(1 .. maxStar, maxLocal) :
         \E q \in SortedByPriority([k \in 1 .. Len(stars) |-> LocalItem(k, stars[k])]) :
           /\ local_queue' = q
           /\ stats' = [stats EXCEPT !.local_files_found = Len(q),
                                     !.youtube_videos_loaded =
                                         Len(youtube_queue')]
    /\ is_loading_playlists' = FALSE
    /\ \E max_workers \in 1 .. maxWorkers :
         pc' = [w \in Workers |->
                  IF w <= analysis_workers(max_workers) THEN "loop"
                  ELSE "unstarted"]
    /\ initialized' = TRUE
    /\ UNCHANGED <<ready_queue, items, is_analyzing, local_files_exhausted,
                   queue_lock, item_to_analyze, fetched, counted, mainState,
                   raised, cleaned>>
    /\ Observed

\* initialize() on a session that is new or resumed at an offset within
\* 0 .. total_songs
Initialize(maxVideos, maxLocal, maxStar, maxWorkers) ==
    InitializeAt(maxVideos, maxLocal, maxStar, maxWorkers, 0)

(***************************************************************************)
(* analyze_metadata, the loop of each worker (lines 221-243).               *)
(***************************************************************************)
\* A loop that does not test the stop flag (while True).
WorkerLoopForever(w) ==
    /\ pc[w] = "loop"
    /\ pc' = [pc EXCEPT ![w] = "claim"]
    /\ UNCHANGED <<queues, items, flags, stats, queue_lock, current_session,
                   item_to_analyze, fetched, counted, mainState, initialized,
                   raised, cleaned>>
    /\ Observed

\* line 223: while self.is_analyzing
WorkerLoop(w) ==
    /\ pc[w] = "loop"
    /\ pc' = [pc EXCEPT ![w] = IF is_analyzing THEN "claim" ELSE "exited"]
    /\ UNCHANGED <<queues, items, flags, stats, queue_lock, current_session,
                   item_to_analyze, fetched, counted, mainState, initialized,
                   raised, cleaned>>
    /\ Observed

\* A scan that looks only at metadata_ready, not at analysis_in_progress.
FirstUnresolved(q) ==
    LET idx == { i \in 1 .. Len(q) : ~metadata_ready[q[i].n] }
    IN IF idx = {} THEN 0 ELSE CHOOSE i \in idx : \A j \in idx : i <= j

\* lines 228-232: position in the backlog of the first item that is neither
\* resolved nor being analyzed; 0 when there is none
FirstUnclaimed(q) ==
    LET idx == { i \in 1 .. Len(q) :
                   /\ ~metadata_ready[q[i].n]
                   /\ ~analysis_in_progress[q[i].n] }
    IN IF idx = {} THEN 0 ELSE CHOOSE i \in idx : \A j \in idx : i <= j

\* A worker that keeps the lock from its claim on.
LockKeptAfterClaim(w) == {w}

\* lines 226-232: the holders of the lock when the worker leaves the block
LockAfterClaim(w) == {}

\* lines 226-236: the claim under the lock; with an item claimed the worker
\* goes on to _analyze_item, otherwise it sleeps (time.sleep(1) changes no
\* state) and goes to the stop check
WorkerClaim(w) ==
    /\ pc[w] = "claim"
    /\ Acquire
    /\ LET i == FirstUnclaimed(youtube_queue) IN
         IF i # 0
         THEN /\ analysis_in_progress' =
                   [analysis_in_progress EXCEPT ![youtube_queue[i].n] = TRUE]
              /\ item_to_analyze' =
                   [item_to_analyze EXCEPT ![w] = youtube_queue[i].n]
              /\ pc' = [pc EXCEPT ![w] = "resolving"]
         ELSE /\ UNCHANGED <<analysis_in_progress, item_to_analyze>>
              /\ pc' = [pc EXCEPT ![w] = "check"]
    /\ queue_lock' = LockAfterClaim(w)
    /\ UNCHANGED <<queues, metadata, metadata_ready, acoustid_analyzed, flags,
                   stats, current_session, fetched, counted, mainState,
                   initialized, raised, cleaned>>
    /\ Observed


(***************************************************************************)
(* _analyze_item (lines 249-285).                                           *)
(***************************************************************************)
\* lines 252-264: metadata_fetcher.get_metadata returns descriptor m; the
\* worker, holding no lock, marks the item and counts a fingerprint match
\* (the increment of line 259 is taken as a single step)
ResolverReturn(w) ==
    /\ pc[w] = "resolving"
    /\ \E m \in ResolverResults :
         /\ fetched' = [fetched EXCEPT ![w] = <<m>>]
         /\ acoustid_analyzed' =
              [acoustid_analyzed EXCEPT ![item_to_analyze[w]] =
                 @ \/ m.source = "ACOUSTID" \/ m.acoustid_attempted]
         /\ stats' = [stats EXCEPT !.acoustid_analyzed =
                        IF m.source = "ACOUSTID" THEN @ + 1 ELSE @]
    /\ pc' = [pc EXCEPT ![w] = "write"]
    /\ UNCHANGED <<queues, metadata, metadata_ready, analysis_in_progress,
                   flags, queue_lock, current_session, item_to_analyze,
                   counted, mainState, initialized, raised, cleaned>>
    /\ Observed

\* lines 252-254 raise: control goes to the handler of line 278
ResolverRaise(w) ==
    /\ pc[w] = "resolving"
    /\ pc' = [pc EXCEPT ![w] = "except"]
    /\ raised' = raised \cup {item_to_analyze[w]}
    /\ UNCHANGED <<queues, items, flags, stats, queue_lock, current_session,
                   item_to_analyze, fetched, counted, mainState, initialized,
                   cleaned>>
    /\ Observed

\* line 272: the descriptors that send an item to the ready buffer
GoodEnough(m) ==
    is_complete_metadata(m) \/ m.source \in {"ACOUSTID", "MUSICBRAINZ"}

\* lines 268-274: what the write-back does to the ready buffer
ReadyAfterWrite(rq, item, m) ==
    IF GoodEnough(m) THEN Append(rq, item) ELSE rq

\* lines 267-274: the write-back under the lock.  stats['ready_buffer_size']
\* (line 274) is read nowhere: get_stats reports len(self.ready_queue).
WorkerWrite(w) ==
    /\ pc[w] = "write"
    /\ Acquire
    /\ LET i == item_to_analyze[w]
           m == fetched[w][1]
       IN /\ metadata' = [metadata EXCEPT ![i] = <<m>>]
          /\ metadata_ready' = [metadata_ready EXCEPT ![i] = TRUE]
          /\ analysis_in_progress' = [analysis_in_progress EXCEPT ![i] = FALSE]
          /\ ready_queue' = ReadyAfterWrite(ready_queue, YoutubeItem(i), m)
    /\ queue_lock' = {}
    /\ pc' = [pc EXCEPT ![w] = "count_read"]
    /\ item_to_analyze' = [item_to_analyze EXCEPT ![w] = 0]
    /\ fetched' = [fetched EXCEPT ![w] = <<>>]
    /\ UNCHANGED <<local_queue, youtube_queue, acoustid_analyzed, flags, stats,
                   current_session, counted, mainState, initialized, raised,
                   cleaned>>
    /\ Observed

\* line 276, self.stats['metadata_analyzed'] += 1 outside the lock: the read
WorkerCountRead(w) ==
    /\ pc[w] = "count_read"
    /\ counted' = [counted EXCEPT ![w] = stats.metadata_analyzed]
    /\ pc' = [pc EXCEPT ![w] = "count_write"]
    /\ UNCHANGED <<queues, items, flags, stats, queue_lock, current_session,
                   item_to_analyze, fetched, mainState, initialized, raised,
                   cleaned>>
    /\ Observed

\* line 276: the write of the incremented value
WorkerCountWrite(w) ==
    /\ pc[w] = "count_write"
    /\ stats' = [stats EXCEPT !.metadata_analyzed = counted[w] + 1]
    /\ counted' = [counted EXCEPT ![w] = 0]
    /\ pc' = [pc EXCEPT ![w] = "check"]
    /\ UNCHANGED <<queues, items, flags, queue_lock, current_session,
                   item_to_analyze, fetched, mainState, initialized, raised,
                   cleaned>>
    /\ Observed

\* lines 283-284: the descriptor the handler leaves on the item
MetadataAfterExcept(md) == IF md = <<>> THEN <<DefaultMetadata>> ELSE md

\* A handler that forgets to clear analysis_in_progress.
FlagsStuckInFlight == [analysis_in_progress |-> TRUE, metadata_ready |-> TRUE]

\* A handler that does not mark the item ready.
FlagsNotReady == [analysis_in_progress |-> FALSE, metadata_ready |-> FALSE]

\* lines 281-285: the item's (analysis_in_progress, metadata_ready) after
\* the handler
FlagsAfterExcept == [analysis_in_progress |-> FALSE, metadata_ready |-> TRUE]

\* lines 278-285: the handler, under the lock
WorkerExcept(w) ==
    /\ pc[w] = "except"
    /\ Acquire
    /\ LET i == item_to_analyze[w] IN
          /\ analysis_in_progress' =
               [analysis_in_progress EXCEPT
                  ![i] = FlagsAfterExcept.analysis_in_progress]
          /\ metadata' = [metadata EXCEPT ![i] = MetadataAfterExcept(@)]
          /\ metadata_ready' =
               [metadata_ready EXCEPT ![i] = FlagsAfterExcept.metadata_ready]
    /\ queue_lock' = {}
    /\ pc' = [pc EXCEPT ![w] = "check"]
    /\ item_to_analyze' = [item_to_analyze EXCEPT ![w] = 0]
    /\ UNCHANGED <<queues, acoustid_analyzed, flags, stats, current_session,
                   fetched, counted, mainState, initialized, raised, cleaned>>
    /\ Observed

\* A stop check that always finds an item left to analyze.
AlwaysOneLeft(q) == 1

\* A stop check that never finds an item left to analyze.
NoneLeft(q) == 0

\* lines 240-241: the number of backlog items neither resolved nor in flight
Unanalyzed(q) ==
    Cardinality({ i \in 1 .. Len(q) :
                    /\ ~metadata_ready[q[i].n]
                    /\ ~analysis_in_progress[q[i].n] })

\* lines 239-243: the stop check under the lock
WorkerCheck(w) ==
    /\ pc[w] = "check"
    /\ Acquire
    /\ is_analyzing' =
         IF Unanalyzed(youtube_queue) = 0 /\ ~is_loading_playlists
         THEN FALSE ELSE is_analyzing
    /\ queue_lock' = {}
    /\ pc' = [pc EXCEPT ![w] = "loop"]
    /\ UNCHANGED <<queues, items, is_loading_playlists, local_files_exhausted,
                   stats, current_session, item_to_analyze, fetched, counted,
                   mainState, initialized, raised, cleaned>>
    /\ Observed


\* An update that adds the offset to the one recorded.
update_session_progress_adding(session, current_index, current_url) ==
    IF session = <<>> THEN session
    ELSE << [session[1] EXCEPT
               !.current_index = @ + current_index,
               !.play_count = @ + 1,
               !.current_url = IF current_url # 0 THEN current_url ELSE @] >>

(***************************************************************************)
(* SessionManager.update_session_progress (lines 183-191): the active       *)
(* session after the call; nothing happens without an active session.       *)
(***************************************************************************)
update_session_progress(session, current_index, current_url) ==
    IF session = <<>> THEN session
    ELSE << [session[1] EXCEPT
               !.current_index = current_index,
               !.play_count = @ + 1,
               !.current_url = IF current_url # 0 THEN current_url ELSE @] >>

(***************************************************************************)
(* FastQueueManager.get_next_song (lines 308-337).                          *)
(***************************************************************************)
\* The progress computed from the lengths before the pop.
SessionBeforePop(yq, rq, item) ==
    IF current_session # <<>>
    THEN update_session_progress(
             current_session,
             current_session[1].total_songs
                 - (Len(youtube_queue) + Len(ready_queue)),
             item.n)
    ELSE current_session

\* lines 316-318, 325-327, 332-334: the progress recorded after a pop that
\* left backlog yq and ready buffer rq and returned item
SessionAfterPop(yq, rq, item) ==
    IF current_session # <<>>
    THEN update_session_progress(
             current_session,
             current_session[1].total_songs - (Len(yq) + Len(rq)),
             item.n)
    ELSE current_session

\* lines 321-322: position of the first backlog item with metadata_ready,
\* 0 when there is none
FirstReady(q) ==
    LET idx == { i \in 1 .. Len(q) : metadata_ready[q[i].n] }
    IN IF idx = {} THEN 0 ELSE CHOOSE i \in idx : \A j \in idx : i <= j

\* lines 311-312
TakeLocal ==
    [item |-> <<Head(local_queue)>>, local_queue |-> Tail(local_queue),
     youtube_queue |-> youtube_queue, ready_queue |-> ready_queue,
     session |-> current_session]

\* A ready-buffer branch that hands out the buffered item that comes first
\* in the session's video list.
TakeReadyInBacklogOrder ==
    LET i == CHOOSE k \in 1 .. Len(ready_queue) :
                \A j \in 1 .. Len(ready_queue) :
                   ready_queue[k].n <= ready_queue[j].n
        rq == RemoveAt(ready_queue, i)
    IN [item |-> <<ready_queue[i]>>, local_queue |-> local_queue,
        youtube_queue |-> youtube_queue, ready_queue |-> rq,
        session |-> SessionAfterPop(youtube_queue, rq, ready_queue[i])]

\* A ready-buffer branch that does not record the progress.
TakeReadySilently ==
    [item |-> <<Head(ready_queue)>>, local_queue |-> local_queue,
     youtube_queue |-> youtube_queue, ready_queue |-> Tail(ready_queue),
     session |-> current_session]

\* lines 313-319
TakeReady ==
    [item |-> <<Head(ready_queue)>>, local_queue |-> local_queue,
     youtube_queue |-> youtube_queue, ready_queue |-> Tail(ready_queue),
     session |-> SessionAfterPop(youtube_queue, Tail(ready_queue),
                                 Head(ready_queue))]

\* A backlog branch that hands out resolved items only.
TakeBacklogOnlyReady ==
    LET f == FirstReady(youtube_queue)
        yq == RemoveAt(youtube_queue, f)
    IN IF f = 0
       THEN [item |-> <<>>, local_queue |-> local_queue,
             youtube_queue |-> youtube_queue, ready_queue |-> ready_queue,
             session |-> current_session]
       ELSE [item |-> <<youtube_queue[f]>>, local_queue |-> local_queue,
             youtube_queue |-> yq, ready_queue |-> ready_queue,
             session |-> SessionAfterPop(yq, ready_queue, youtube_queue[f])]

\* lines 320-335: the first resolved backlog item, else the head
TakeBacklog ==
    LET f == FirstReady(youtube_queue)
        i == IF f # 0 THEN f ELSE 1
        yq == RemoveAt(youtube_queue, i)
    IN [item |-> <<youtube_queue[i]>>, local_queue |-> local_queue,
        youtube_queue |-> yq, ready_queue |-> ready_queue,
        session |-> SessionAfterPop(yq, ready_queue, youtube_queue[i])]

\* lines 336-337
TakeNothing ==
    [item |-> <<>>, local_queue |-> local_queue,
     youtube_queue |-> youtube_queue, ready_queue |-> ready_queue,
     session |-> current_session]

\* A dequeue policy that serves the ready buffer before the local queue.
get_next_song_ready_first ==
    IF ready_queue # <<>> THEN TakeReady
    ELSE IF ~local_files_exhausted /\ local_queue # <<>> THEN TakeLocal
    ELSE IF youtube_queue # <<>> THEN TakeBacklog
    ELSE TakeNothing

\* the body of the `with self.queue_lock:` block of get_next_song: the item
\* returned (<<>> for None) and the collections and session it leaves
get_next_song ==
    IF ~local_files_exhausted /\ local_queue # <<>> THEN TakeLocal
    ELSE IF ready_queue # <<>> THEN TakeReady
    ELSE IF youtube_queue # <<>> THEN TakeBacklog
    ELSE TakeNothing

\* main.py line 114: the playback loop calls get_next_song
PlayerCall ==
    /\ main_pc = "idle"
    /\ main_pc' = "calling"
    /\ UNCHANGED <<queues, items, flags, stats, queue_lock, current_session,
                   workerState, result, returned, initialized, raised, cleaned>>
    /\ Observed

\* lines 310-337: get_next_song under the lock, and its return
PlayerReturn ==
    /\ main_pc = "calling"
    /\ Acquire
    /\ LET r == get_next_song IN
          /\ local_queue' = r.local_queue
          /\ youtube_queue' = r.youtube_queue
          /\ ready_queue' = r.ready_queue
          /\ current_session' = r.session
          /\ result' = r.item
          /\ returned' = returned \o r.item
    /\ queue_lock' = {}
    /\ main_pc' = "idle"
    /\ UNCHANGED <<items, flags, stats, workerState, initialized, raised,
                   cleaned>>
    /\ Observed

(***************************************************************************)
(* FastQueueManager.cleanup (lines 383-389): analysis_futures is never      *)
(* filled, so only the stop flag changes.  No lock is taken.                *)
(***************************************************************************)
Cleanup ==
    /\ initialized
    /\ ~cleaned
    /\ is_analyzing' = FALSE
    /\ cleaned' = TRUE
    /\ UNCHANGED <<queues, items, is_loading_playlists, local_files_exhausted,
                   stats, queue_lock, current_session, workerState, mainState,
                   initialized, raised>>
    /\ Observed

(***************************************************************************)
(* FastQueueManager.get_stats as it runs (lines 339-356), called by the     *)
(* playback loop between two get_next_song calls (main.py, line 141).  The  *)
(* four counts are read inside the `with self.queue_lock:` block; the       *)
(* dictionary is built after the block from self.stats and the flags as     *)
(* they are then.  The reads made after the block are taken as one step.    *)
(***************************************************************************)
\* lines 341-345: the counts read under the lock
GetStatsLocked ==
    /\ initialized
    /\ main_pc = "idle"
    /\ Acquire
    /\ main_pc' = "stats"
    /\ call' = [name |-> "get_stats",
                ready_buffer_size |-> Len(ready_queue),
                local_remaining |-> Len(local_queue),
                youtube_remaining |-> Len(youtube_queue),
                currently_analyzing |->
                    Cardinality({ i \in 1 .. Len(youtube_queue) :
                                    analysis_in_progress[youtube_queue[i].n] })]
    /\ ret' = <<>>
    /\ seen' = {get_stats}
    /\ UNCHANGED <<queues, items, flags, stats, queue_lock, current_session,
                   workerState, result, returned, initialized, raised, cleaned,
                   session_files, clock, invoked, cache>>

\* lines 347-356: the dictionary returned
GetStatsReturn ==
    /\ main_pc = "stats"
    /\ main_pc' = "idle"
    /\ ret' = << [local_files_found |-> stats.local_files_found,
                  youtube_videos_loaded |-> stats.youtube_videos_loaded,
                  metadata_analyzed |-> stats.metadata_analyzed,
                  acoustid_analyzed |-> stats.acoustid_analyzed,
                  ready_buffer_size |-> call.ready_buffer_size,
                  local_remaining |-> call.local_remaining,
                  youtube_remaining |-> call.youtube_remaining,
                  currently_analyzing |-> call.currently_analyzing,
                  is_loading_playlists |-> is_loading_playlists,
                  is_analyzing |-> is_analyzing,
                  local_exhausted |-> local_files_exhausted] >>
    /\ seen' = {}
    /\ UNCHANGED <<queues, items, flags, stats, queue_lock, current_session,
                   workerState, result, returned, initialized, raised, cleaned,
                   session_files, clock, call, invoked, cache>>

(***************************************************************************)
(* SessionManager (enhanced_session_manager.py).  A file of the sessions    *)
(* directory is unparsable text or a JSON object.  The JSON objects are     *)
(* those this program writes, asdict of a SessionData, and those of its     *)
(* older format, with "index" for "current_index" and without play_count    *)
(* and version.  A file is named after the session_id it holds.  Locators   *)
(* are 1, 2, ...; 0 stands for None.  Writing a file succeeds, except in    *)
(* UpdateSessionProgressUnsaved.                                            *)
(***************************************************************************)
\* line 165: max_age_days * 24 * 3600
Day == 24 * 3600

\* line 63: videos[:10]
IdPrefix == 10

\* SessionData, lines 20-26: the fields without a default
RequiredFields ==
    {"session_id", "name", "created", "last_accessed", "current_index",
     "total_songs", "videos"}

\* SessionData, lines 20-29
SessionFields == RequiredFields \cup {"current_url", "play_count", "version"}

\* SessionData(**data): the object built from a JSON object, <<>> when the
\* constructor raises (a field without default is missing, or a key is not
\* a field)
SessionData(data) ==
    IF RequiredFields \subseteq DOMAIN data /\ DOMAIN data \subseteq SessionFields
    THEN << [session_id |-> data.session_id,
             name |-> data.name,
             created |-> data.created,
             last_accessed |-> data.last_accessed,
             current_index |-> data.current_index,
             total_songs |-> data.total_songs,
             videos |-> data.videos,
             current_url |->
                 IF "current_url" \in DOMAIN data THEN data.current_url ELSE 0,
             play_count |->
                 IF "play_count" \in DOMAIN data THEN data.play_count ELSE 0,
             version |->
                 IF "version" \in DOMAIN data THEN data.version ELSE "4.2"] >>
    ELSE <<>>

\* A serialisation that keeps only the first locator of the video list.
asdict_first_only(session) ==
    [k \in SessionFields |->
        IF k = "videos"
        THEN SubSeq(session.videos, 1, Min(1, Len(session.videos)))
        ELSE session[k]]

\* dataclasses.asdict: the JSON object of a SessionData
asdict(session) == [k \in SessionFields |-> session[k]]

Unparsable == [kind |-> "unparsable"]
JsonFile(data) == [kind |-> "json", data |-> data]

\* _generate_session_id, lines 60-66: the digest of the first IdPrefix
\* locators and of the time in seconds, taken as the pair itself
generate_session_id(videos, now) ==
    <<SubSeq(videos, 1, Min(IdPrefix, Len(videos))), now>>

\* _save_session, lines 96-103: the directory after the write
save_session(files, session) ==
    (session.session_id :> JsonFile(asdict(session))) @@ files

\* create_session, lines 76-90: the SessionData built
NewSession(videos, now) ==
    [session_id |-> generate_session_id(videos, now),
     name |-> "Session",
     created |-> now,
     last_accessed |-> now,
     current_index |-> 0,
     total_songs |-> Len(videos),
     videos |-> videos,
     current_url |-> 0,
     play_count |-> 0,
     version |-> "4.2"]

\* load_session, lines 115-123: the older format renamed and completed
Compatible(data) ==
    LET renamed ==
            IF "index" \in DOMAIN data /\ "current_index" \notin DOMAIN data
            THEN [k \in (DOMAIN data \ {"index"}) \cup {"current_index"} |->
                     IF k = "current_index" THEN data.index ELSE data[k]]
            ELSE data
    IN [k \in DOMAIN renamed \cup {"play_count", "version"} |->
           IF k \in DOMAIN renamed THEN renamed[k]
           ELSE IF k = "play_count" THEN 0 ELSE "4.2"]

\* load_session, lines 107-125: the SessionData read from the file of id,
\* <<>> when the file is missing (line 110) or an exception is raised
\* (line 134)
ReadSession(files, id) ==
    IF id \notin DOMAIN files THEN <<>>
    ELSE IF files[id].kind # "json" THEN <<>>
    ELSE SessionData(Compatible(files[id].data))

\* list_sessions, lines 142-149: the SessionData objects of the files that
\* json.load and the constructor accept
Listed(files) ==
    { SessionData(files[id].data)[1] :
        id \in { i \in DOMAIN files :
                   /\ files[i].kind = "json"
                   /\ SessionData(files[i].data) # <<>> } }

\* The objects in the order the directory lists their files.
Unsorted(found) ==
    { q \in [1 .. Cardinality(found) -> found] :
        \A i, j \in 1 .. Cardinality(found) : i # j => q[i] # q[j] }

\* list_sessions, line 152: the lists the sort may leave, last_accessed
\* non-increasing, sessions of equal last_accessed in any order
MostRecentFirst(found) ==
    { q \in [1 .. Cardinality(found) -> found] :
        /\ \A i, j \in 1 .. Cardinality(found) : i # j => q[i] # q[j]
        /\ \A i \in 1 .. Cardinality(found) - 1 :
              q[i].last_accessed >= q[i + 1].last_accessed }

\* list_sessions, lines 138-153: the lists the call may return
list_sessions(files) == MostRecentFirst(Listed(files))

\* A sweep that protects nothing.
KeepNone(sessions, keep_recent) == {}

\* cleanup_old_sessions, lines 160-162
to_keep(sessions, keep_recent) ==
    { sessions[i].session_id : i \in 1 .. Min(keep_recent, Len(sessions)) }

\* cleanup_old_sessions, line 165
cutoff_time(now, max_age_days) == now - max_age_days * Day

\* cleanup_old_sessions, lines 168-178: the directory after the sweep of the
\* listed sessions
cleanup_old_sessions(files, sessions, now, max_age_days, keep_recent) ==
    LET removed ==
            { sessions[i].session_id : i \in
                { j \in 1 .. Len(sessions) :
                    /\ sessions[j].session_id
                          \notin to_keep(sessions, keep_recent)
                    /\ sessions[j].last_accessed
                          < cutoff_time(now, max_age_days) } }
    IN [id \in DOMAIN files \ removed |-> files[id]]

\* The variables of the queue manager, which no SessionManager call touches.
managed == <<queues, items, flags, stats, queue_lock, workerState, mainState,
             initialized, raised, cleaned, seen, invoked>>

\* the call made in this step, told from the one before by its turn
Called(name, args) == [name |-> name, args |-> args, turn |-> 1 - call.turn]

\* create_session(videos), lines 72-94, called while the manager has no
\* active session, as it is from lines 278, 303 and 314.  The calls of
\* fast_queue_manager.py, lines 198 and 214, of which the second may find
\* the session of the first, are the steps SelectSession and CreateDefault.
CreateSession ==
    /\ current_session = <<>>
    /\ \E videos \in SeqsUpTo(1 .. MaxLocs, MaxListLen) :
          LET session == NewSession(videos, clock) IN
             /\ session_files' = save_session(session_files, session)
             /\ current_session' = <<session>>
             /\ ret' = <<session>>
             /\ call' = Called("create_session", <<videos>>)
    /\ UNCHANGED <<managed, cache, clock>>

\* an id no file is named after
AbsentId == generate_session_id(<<>>, 0)

\* The active session a failed load leaves.
DroppedOnFailure(session) == <<>>

\* load_session, lines 109-110 and 134-136: the active session a failed
\* load leaves
KeptOnFailure(session) == session

\* load_session(session_id), lines 105-136
LoadSession ==
    /\ \E id \in DOMAIN session_files \cup {AbsentId} :
          LET read == ReadSession(session_files, id) IN
             /\ call' = Called("load_session", <<id>>)
             /\ IF read = <<>>
                THEN /\ ret' = <<>>
                     /\ current_session' = KeptOnFailure(current_session)
                     /\ UNCHANGED session_files
                ELSE LET session == [read[1] EXCEPT !.last_accessed = clock]
                     IN /\ session_files' =
                              save_session(session_files, session)
                        /\ current_session' = <<session>>
                        /\ ret' = <<session>>
    /\ UNCHANGED <<managed, cache, clock>>

\* update_session_progress(current_index, current_url), lines 183-191, with
\* the write of lines 187 and 191
UpdateSessionProgress ==
    /\ current_session # <<>> => current_session[1].play_count < MaxPlays
    /\ \E k \in 0 .. MaxListLen :
          \E loc \in 0 .. MaxLocs :
             /\ call' = Called("update_session_progress", <<k, loc>>)
             /\ IF current_session = <<>>
                THEN UNCHANGED <<current_session, session_files>>
                ELSE LET session ==
                            [update_session_progress(current_session, k, loc)[1]
                                EXCEPT !.last_accessed = clock]
                     IN /\ current_session' = <<session>>
                        /\ session_files' =
                              save_session(session_files, session)
    /\ ret' = <<>>
    /\ UNCHANGED <<managed, cache, clock>>

\* _save_session, lines 98-103, when the write raises: open(session_file,
\* "w") raised and the file is as it was, or it had emptied the file and
\* json.dump or the close raised, leaving the beginning of the text; the
\* exception ends in the handler of line 102
failed_save_session(files, session) ==
    {files, (session.session_id :> Unparsable) @@ files}

\* update_session_progress(current_index, current_url), lines 183-191, with
\* the write of line 191 failing
UpdateSessionProgressUnsaved ==
    /\ current_session # <<>>
    /\ current_session[1].play_count < MaxPlays
    /\ \E k \in 0 .. MaxListLen :
          \E loc \in 0 .. MaxLocs :
             /\ call' = Called("update_session_progress",
                               <<k, loc, "OSError">>)
             /\ LET session ==
                        [update_session_progress(current_session, k, loc)[1]
                            EXCEPT !.last_accessed = clock]
                IN /\ current_session' = <<session>>
                   /\ session_files'
                         \in failed_save_session(session_files, session)
    /\ ret' = <<>>
    /\ UNCHANGED <<managed, cache, clock>>

\* list_sessions(), lines 138-153
ListSessions ==
    /\ \E sessions \in list_sessions(session_files) :
          ret' = <<sessions>>
    /\ call' = Called("list_sessions", <<>>)
    /\ UNCHANGED <<managed, cache, clock, session_files, current_session>>

\* cleanup_old_sessions(max_age_days, keep_recent), lines 155-181
CleanupOldSessions ==
    /\ \E max_age_days \in 0 .. MaxAgeDays :
          \E keep_recent \in 0 .. MaxKeep :
             \E sessions \in list_sessions(session_files) :
                /\ session_files' =
                      cleanup_old_sessions(session_files, sessions, clock,
                                           max_age_days, keep_recent)
                /\ call' = Called("cleanup_old_sessions",
                                  <<max_age_days, keep_recent>>)
    /\ ret' = <<>>
    /\ UNCHANGED <<managed, cache, clock, current_session>>

\* A day passes.
Tick ==
    /\ clock < (SessionDays + 2) * Day
    /\ clock' = clock + Day
    /\ UNCHANGED <<managed, cache, session_files, current_session, call, ret>>

\* The session file number k of the directory at start: created at second
\* k, last used d days later.
StoredSession(k, d) ==
    [NewSession(<<1>>, k) EXCEPT !.last_accessed = k + d * Day]

\* The same session as the older format wrote it.
OldFormat(k) ==
    [session_id |-> generate_session_id(<<1>>, k),
     name |-> "Session",
     created |-> k,
     last_accessed |-> k,
     index |-> 1,
     total_songs |-> 1,
     videos |-> <<1>>,
     current_url |-> 1]

\* what file number k may hold
StoredFiles(k) ==
    {Unparsable, JsonFile(OldFormat(k))}
        \cup { JsonFile(asdict(StoredSession(k, d))) : d \in 0 .. SessionDays }

\* the directories of at most n files
Directories(n) ==
    UNION { { f \in [ { generate_session_id(<<1>>, k) : k \in K }
                        -> UNION { StoredFiles(k) : k \in K } ] :
                \A k \in K : f[generate_session_id(<<1>>, k)] \in StoredFiles(k) } :
            K \in SUBSET (1 .. n) }

\* SessionManager.__init__ on a directory of at most n files, a day after
\* the last use of any of them
StoreInit(n) ==
    /\ ManagerInit
    /\ session_files \in Directories(n)
    /\ clock = (SessionDays + 1) * Day
    /\ call = NoCall
    /\ ret = <<>>
    /\ seen = {}
    /\ invoked = [i \in VideoIds |-> 0]
    /\ cache_db = <<>>
    /\ saved = <<>>

(***************************************************************************)
(* MetadataCache (metadata.py).  The table `metadata` has one row per url,  *)
(* its primary key.  A row keeps the descriptor's fields as the columns     *)
(* hold them: genres as the JSON text of the list, source as the number of  *)
(* the MetadataSource member, acoustid_attempted as 0 or 1.  A JSON text is *)
(* the sequence of its tokens.                                              *)
(***************************************************************************)
\* MetadataSource, lines 18-22: the value of each member
SourceValue == [YTDLP |-> 1, ACOUSTID |-> 2, MUSICBRAINZ |-> 3, CACHE |-> 4]

\* MetadataSource(value), line 141: the member of that value
MetadataSource(value) ==
    CHOOSE name \in DOMAIN SourceValue : SourceValue[name] = value

\* json.dumps of a list of strings, line 157
json_dumps(list) ==
    <<"[">>
       \o [i \in 1 .. 2 * Len(list) - 1 |->
              IF i % 2 = 1 THEN list[(i + 1) \div 2] ELSE ","]
       \o <<"]">>

IsJsonValue(token) == token \notin {"[", ",", "]"}

\* json.loads of the text of a list of strings, line 138
json_loads(text) == SelectSeq(text, IsJsonValue)

\* the genre names of this model, and SongMetadata.genres of a descriptor
Genres == <<"rock", "pop", "jazz", "folk">>

WithGenres(m, genres) ==
    [k \in DOMAIN m \cup {"genres"} |-> IF k = "genres" THEN genres ELSE m[k]]

\* the descriptors handed to save_metadata in this model: the resolver's,
\* without genres or, for those of a fingerprint match, with up to MaxGenres
\* genres
CacheDescriptors ==
    { WithGenres(m, <<>>) : m \in ResolverResults }
       \cup { WithGenres(m, SubSeq(Genres, 1, k)) :
                m \in { r \in ResolverResults : r.source = "ACOUSTID" },
                k \in 1 .. Min(MaxGenres, Len(Genres)) }

\* save_metadata, lines 155-160: the row written for url
CacheRow(url, m, current_time) ==
    [url |-> url,
     named |-> m.named,
     duration |-> m.duration,
     genres |-> json_dumps(m.genres),
     confident |-> m.confident,
     source |-> SourceValue[m.source],
     timestamp |-> current_time,
     last_accessed |-> current_time,
     acoustid_attempted |-> IF m.acoustid_attempted THEN 1 ELSE 0]

\* get_metadata, lines 134-143: the SongMetadata built from a row
RowMetadata(row) ==
    [named |-> row.named,
     duration |-> row.duration,
     genres |-> IF row.genres # <<>> THEN json_loads(row.genres) ELSE <<>>,
     confident |-> row.confident,
     source |-> MetadataSource(row.source),
     acoustid_attempted |-> row.acoustid_attempted # 0]

\* A save that leaves the row a url already has (INSERT OR IGNORE).
save_metadata_ignoring(table, url, m, current_time) ==
    IF url \in DOMAIN table THEN table
    ELSE (url :> CacheRow(url, m, current_time)) @@ table

\* save_metadata, lines 146-160: the table after INSERT OR REPLACE
save_metadata(table, url, m, current_time) ==
    (url :> CacheRow(url, m, current_time)) @@ table

\* get_metadata, lines 126-144: what the call returns, <<>> for None
get_metadata(table, url) ==
    IF url \in DOMAIN table THEN <<RowMetadata(table[url])>> ELSE <<>>

\* get_metadata, lines 128-131: the table after the call
accessed(table, url, now) ==
    IF url \in DOMAIN table
    THEN [table EXCEPT ![url].last_accessed = now]
    ELSE table

\* the variables no MetadataCache call touches
uncached == <<managed, session_files, current_session>>

\* the last descriptor saved for url in this run
LastSaved(url) == IF url \in DOMAIN saved THEN saved[url] ELSE <<>>

\* save_metadata(url, metadata), lines 146-160
SaveMetadata ==
    /\ \E url \in 1 .. MaxUrls :
          \E m \in CacheDescriptors :
             /\ cache_db' = save_metadata(cache_db, url, m, clock)
             /\ saved' = (url :> <<m>>) @@ saved
             /\ call' = Called("save_metadata", <<url>>)
    /\ ret' = <<>>
    /\ UNCHANGED <<uncached, clock>>

\* get_metadata(url), lines 123-144
GetMetadata ==
    /\ \E url \in 1 .. MaxUrls :
          /\ ret' = get_metadata(cache_db, url)
          /\ cache_db' = accessed(cache_db, url, clock)
          /\ call' = Called("get_metadata", <<url>>)
    /\ UNCHANGED <<uncached, clock, saved>>

\* A day passes.
CacheTick ==
    /\ clock < CacheDays * Day
    /\ clock' = clock + Day
    /\ UNCHANGED <<uncached, cache, call, ret>>

\* MetadataCache.__init__ on a database that is new or holds, for some
\* urls, the row an earlier run saved
CacheInit ==
    /\ ManagerInit
    /\ session_files = <<>>
    /\ clock = 0
    /\ call = NoCall
    /\ ret = <<>>
    /\ seen = {}
    /\ invoked = [i \in VideoIds |-> 0]
    /\ \E urls \in SUBSET (1 .. MaxUrls) :
          cache_db = [url \in urls |->
                         CacheRow(url, WithGenres(DefaultMetadata, <<>>), 0)]
    /\ saved = <<>>

CacheNext ==
    \/ SaveMetadata
    \/ GetMetadata
    \/ CacheTick

CacheSpec == CacheInit /\ [][CacheNext]_vars

\* A sweep by the time of the last read.
cleanup_unread_entries(table, now, max_age_days) ==
    [url \in { u \in DOMAIN table :
                 table[u].last_accessed >= now - max_age_days * Day } |->
        table[url]]

\* cleanup_old_entries, lines 115-121: the table after DELETE FROM metadata
\* WHERE timestamp < cutoff
cleanup_old_entries(table, now, max_age_days) ==
    [url \in { u \in DOMAIN table :
                 table[u].timestamp >= now - max_age_days * Day } |->
        table[url]]

\* the row of url as a run of d days after the first left it, read h days
\* after it was saved
StoredRow(url, d, h) ==
    [CacheRow(url, WithGenres(DefaultMetadata, <<>>), d * Day)
        EXCEPT !.last_accessed = (d + h) * Day]

\* the tables earlier runs may have left: none, or a row for each url
StoredTables ==
    {<<>>} \cup
       { t \in [1 .. MaxUrls ->
                   { StoredRow(url, d, h) :
                       url \in 1 .. MaxUrls, d \in 0 .. RetainDays,
                       h \in 0 .. RetainDays }] :
           \A url \in 1 .. MaxUrls :
              /\ t[url].url = url
              /\ t[url].last_accessed <= RetainDays * Day }

\* MetadataCache(db_path, max_age_days), lines 75-79: init_db, which keeps
\* the rows of an existing table, then cleanup_old_entries
Construct ==
    /\ call = NoCall
    /\ \E max_age_days \in 0 .. RetainDays :
          /\ cache_db' = cleanup_old_entries(cache_db, clock, max_age_days)
          /\ call' = Called("__init__", <<max_age_days>>)
    /\ ret' = <<>>
    /\ UNCHANGED <<uncached, clock, saved>>

\* A day passes in the life of the cache object.
RetainTick ==
    /\ call # NoCall
    /\ clock < (RetainDays + CacheDays) * Day
    /\ clock' = clock + Day
    /\ UNCHANGED <<uncached, cache, call, ret>>

\* The database file before a MetadataCache is built on it, RetainDays
\* after the first run
RetainInit ==
    /\ ManagerInit
    /\ session_files = <<>>
    /\ clock = RetainDays * Day
    /\ call = NoCall
    /\ ret = <<>>
    /\ seen = {}
    /\ invoked = [i \in VideoIds |-> 0]
    /\ cache_db \in StoredTables
    /\ saved = <<>>

\* A MetadataCache built, then saving and answering as the days pass.
RetainNext ==
    \/ Construct
    \/ call # NoCall /\ SaveMetadata
    \/ call # NoCall /\ GetMetadata
    \/ RetainTick

RetainSpec == RetainInit /\ [][RetainNext]_vars

(***************************************************************************)
(* The system.                                                              *)
(***************************************************************************)
Worker(w) ==
    \/ WorkerLoop(w)
    \/ WorkerClaim(w)
    \/ ResolverReturn(w)
    \/ ResolverRaise(w)
    \/ WorkerWrite(w)
    \/ WorkerCountRead(w)
    \/ WorkerCountWrite(w)
    \/ WorkerExcept(w)
    \/ WorkerCheck(w)

\* every step but initialize()
Run ==
    \/ \E w \in Workers : Worker(w)
    \/ PlayerCall
    \/ PlayerReturn
    \/ Cleanup

Next ==
    \/ Initialize(MaxVideos, MaxLocal, MaxStar, MaxWorkers)
    \/ Run

Spec == Init /\ [][Next]_vars

\* The same system on backlogs of up to WideVideos items.
WideNext ==
    \/ Initialize(WideVideos, WideLocal, MaxStar, WideWorkers)
    \/ Run

WideSpec == Init /\ [][WideNext]_vars


\* The same system on local queues of up to LocalFiles files in up to
\* LocalStar priority tiers.
LocalNext ==
    \/ Initialize(LiveVideos, LocalFiles, LocalStar, LiveWorkers)
    \/ Run

LocalSpec == Init /\ [][LocalNext]_vars

\* The same system started with an empty local queue, on backlogs of up to
\* WideVideos items.
ReadyNext ==
    \/ Initialize(WideVideos, 0, MaxStar, WideWorkers)
    \/ Run

ReadySpec == Init /\ [][ReadyNext]_vars

\* The same system resuming sessions at every offset an earlier run may
\* have recorded, on backlogs of up to WideVideos items.
ResumeNext ==
    \/ InitializeAt(WideVideos, 0, MaxStar, LiveWorkers, 1 - WideVideos)
    \/ Run

ResumeSpec == Init /\ [][ResumeNext]_vars

\* The same system with the playback loop also calling get_stats.
StatsNext ==
    \/ Initialize(LiveVideos, LiveLocal, MaxStar, LiveWorkers)
    \/ Run
    \/ GetStatsLocked
    \/ GetStatsReturn

StatsSpec == Init /\ [][StatsNext]_vars

\* A SessionManager creating and loading sessions.
SessionInit == StoreInit(MaxStored)

SessionNext ==
    \/ CreateSession
    \/ LoadSession
    \/ Tick

SessionSpec == SessionInit /\ [][SessionNext]_vars

\* A SessionManager loading a session and recording its progress.
ProgressNext ==
    \/ LoadSession
    \/ UpdateSessionProgress
    \/ Tick

ProgressSpec == SessionInit /\ [][ProgressNext]_vars

\* A SessionManager recording progress while writes may fail.
UnsavedNext ==
    \/ LoadSession
    \/ UpdateSessionProgress
    \/ UpdateSessionProgressUnsaved
    \/ Tick

UnsavedSpec == SessionInit /\ [][UnsavedNext]_vars

\* A SessionManager listing and sweeping a directory of sessions.
SweepInit == StoreInit(SweepStored)

SweepNext ==
    \/ ListSessions
    \/ CleanupOldSessions
    \/ Tick

SweepSpec == SweepInit /\ [][SweepNext]_vars

(***************************************************************************)
(* FastQueueManager._initialize_session (lines 157-217): the choice of the  *)
(* session and the loads of the backlog.  It runs on the main thread before *)
(* any worker exists.  Its steps are the calls that change the session      *)
(* store or the manager; main_pc holds the line the next one is made from.  *)
(***************************************************************************)
Hour == 3600
ResumeHours == 4

\* last_used_hours() < hours, with (now - last_accessed) / 3600 of
\* enhanced_session_manager.py, line 36
UsedWithin(session, now, hours) == now - session.last_accessed < hours * Hour

\* list(dict.fromkeys(fresh_videos)), line 172: the lists without duplicates
UniqueVideos ==
    { v \in SeqsUpTo(1 .. MaxLocs, MaxListLen) :
        \A i, j \in 1 .. Len(v) : i # j => v[i] # v[j] }

\* random.shuffle, lines 196 and 213: the orders it may leave
random_shuffle(list) ==
    { q \in [1 .. Len(list) -> Range(list)] :
        \A i, j \in 1 .. Len(list) : i # j => q[i] # q[j] }

\* what the user may type at the prompt of line 232: a text that is no
\* number, or a number
Inputs(n) == [text : {"c", "x"}] \cup [number : 0 .. n + 1]

NoSelection == [kind |-> "none"]
NewSelection == [kind |-> "new"]
Selected(session) == [kind |-> "session", session |-> session]

\* interactive_session_select, lines 203-249: what it returns for the list
\* it reads and the text typed
interactive_session_select(sessions, choice) ==
    IF sessions = <<>> THEN NoSelection
    ELSE IF "text" \in DOMAIN choice THEN NoSelection
    ELSE IF choice.number = 0 THEN NewSelection
    ELSE IF choice.number - 1 < Len(sessions)
         THEN Selected(sessions[choice.number])
         ELSE NoSelection

\* load_session of lines 182 and 204 on a file it accepts, and the
\* assignment of lines 185 and 207
ResumeSession(id) ==
    LET session == [ReadSession(session_files, id)[1]
                        EXCEPT !.last_accessed = clock]
    IN /\ session_files' = save_session(session_files, session)
       /\ current_session' = <<session>>
       /\ ret' = <<session>>
       /\ call' = Called("load_session", <<id>>)
       /\ main_pc' = "resumed"

\* create_session of lines 198 and 214, and the assignment of lines 200
\* and 216
CreateFrom(videos, line) ==
    LET session == NewSession(videos, clock) IN
       /\ session_files' = save_session(session_files, session)
       /\ current_session' = <<session>>
       /\ ret' = <<session>>
       /\ call' = Called("create_session", <<videos>>)
       /\ main_pc' = line

\* lines 211-212 reached with nothing created or loaded
ToDefault(sessions) ==
    /\ main_pc' = "default"
    /\ ret' = <<sessions>>
    /\ call' = Called("list_sessions", <<>>)
    /\ UNCHANGED <<session_files, current_session>>

\* lines 194-201: the branch of `selected == 'new'` ends at line 201 with
\* no return statement
AfterNew == "created"

\* _initialize_session, lines 176-209, up to the call of
\* _load_session_videos of the branch taken or to line 211
SelectSession ==
    /\ ~initialized
    /\ main_pc = "idle"
    /\ is_loading_playlists
    /\ \E sessions \in list_sessions(session_files) :
         \E choice \in Inputs(Len(sessions)) :
           \E unique_videos \in UniqueVideos :
             IF /\ sessions # <<>>
                /\ UsedWithin(sessions[1], clock, ResumeHours)
                /\ ReadSession(session_files, sessions[1].session_id) # <<>>
             THEN ResumeSession(sessions[1].session_id)
             ELSE \E listed \in list_sessions(session_files) :
                    LET selected ==
                            interactive_session_select(listed, choice)
                    IN IF selected.kind = "new"
                       THEN \E videos \in random_shuffle(unique_videos) :
                               CreateFrom(videos, AfterNew)
                       ELSE IF /\ selected.kind = "session"
                               /\ ReadSession(session_files,
                                      selected.session.session_id) # <<>>
                       THEN ResumeSession(selected.session.session_id)
                       ELSE ToDefault(sessions)
    /\ UNCHANGED <<queues, items, flags, stats, queue_lock, workerState,
                   result, returned, initialized, raised, cleaned, seen,
                   invoked, cache, clock>>

\* lines 211-216: the session created by default, from unique_videos as
\* line 198 left it when the branch above created one
CreateDefault ==
    /\ main_pc = "default"
    /\ \E unique_videos \in
            IF current_session = <<>> THEN UniqueVideos
            ELSE {current_session[1].videos} :
         \E videos \in random_shuffle(unique_videos) :
            CreateFrom(videos, "default_created")
    /\ UNCHANGED <<queues, items, flags, stats, queue_lock, workerState,
                   result, returned, initialized, raised, cleaned, seen,
                   invoked, cache, clock>>

\* _load_session_videos (lines 287-306) called from lines 186, 201, 208 and
\* 217 with the videos and the offset of the session just made active, and
\* the return or, after line 201, the fall to line 211
LoadVideos ==
    /\ main_pc \in {"resumed", "created", "default_created"}
    /\ Acquire
    /\ LET session == current_session[1] IN
          /\ youtube_queue' =
                LoadSessionVideos(Len(session.videos), session.current_index)
          /\ call' = Called("_load_session_videos",
                            <<session.videos, session.current_index>>)
    /\ stats' = [stats EXCEPT !.youtube_videos_loaded = Len(youtube_queue')]
    /\ is_loading_playlists' = FALSE
    /\ ret' = <<>>
    /\ main_pc' = IF main_pc = "created" THEN "default" ELSE "selected"
    /\ UNCHANGED <<local_queue, ready_queue, items, is_analyzing,
                   local_files_exhausted, queue_lock, workerState, result,
                   returned, initialized, raised, cleaned, seen, invoked,
                   cache, clock, session_files, current_session>>

\* A FastQueueManager built on a directory of at most SelectStored session
\* files, the last use of the latest of them ResumeHours before or just
\* less
SelectInit ==
    /\ ManagerInit
    /\ session_files \in Directories(SelectStored)
    /\ \E j \in 0 .. SelectStored :
          clock = SessionDays * Day + ResumeHours * Hour + j
    /\ call = NoCall
    /\ ret = <<>>
    /\ seen = {}
    /\ invoked = [i \in VideoIds |-> 0]
    /\ cache_db = <<>>
    /\ saved = <<>>

SelectNext ==
    \/ SelectSession
    \/ CreateDefault
    \/ LoadVideos

SelectSpec == SelectInit /\ [][SelectNext]_vars

(***************************************************************************)
(* Liveness.  Every thread that can take a step eventually takes one: the   *)
(* workers are threads of the executor, the playback loop calls             *)
(* get_next_song again and again (main.py, lines 112-118).                  *)
(***************************************************************************)
LiveNext ==
    \/ Initialize(LiveVideos, LiveLocal, MaxStar, LiveWorkers)
    \/ Run

\* the steps of the playback loop
Player == PlayerCall \/ PlayerReturn

\* the steps of a worker other than the end of its resolver call
WorkerOwnSteps(w) ==
    \/ WorkerLoop(w)
    \/ WorkerClaim(w)
    \/ WorkerWrite(w)
    \/ WorkerCountRead(w)
    \/ WorkerCountWrite(w)
    \/ WorkerExcept(w)
    \/ WorkerCheck(w)

\* Every resolver call ends, by a return or by an exception.
FairSpec ==
    /\ Init /\ [][LiveNext]_vars
    /\ \A w \in Workers : WF_vars(Worker(w))
    /\ WF_vars(Player)

\* The same on backlogs of up to WideVideos items.
WideFairSpec ==
    /\ Init /\ [][WideNext]_vars
    /\ \A w \in Workers : WF_vars(Worker(w))
    /\ WF_vars(Player)

\* A resolver call may never end.
HangSpec ==
    /\ Init /\ [][LiveNext]_vars
    /\ \A w \in Workers : WF_vars(WorkerOwnSteps(w))
    /\ WF_vars(Player)


(***************************************************************************)
(* Vocabulary of the properties.                                            *)
(***************************************************************************)
\* the step in which a get_next_song call returns
Returns == main_pc = "calling" /\ main_pc' = "idle"

\* number of collections' positions that hold item x
Holdings(x) ==
    Count(local_queue, x) + Count(youtube_queue, x) + Count(ready_queue, x)

\* every item that is in a collection or has been handed out
KnownItems ==
    Range(local_queue) \cup Range(youtube_queue) \cup Range(ready_queue)
        \cup Range(returned)

\* worker w is inside _analyze_item
Analyzing(w) == pc[w] \in {"resolving", "write", "except"}

(***************************************************************************)
(* C1.  No item is claimed by two workers: the workers that are inside      *)
(* _analyze_item hold pairwise different items, and an item held by a       *)
(* worker has analysis_in_progress set, so that no scan selects it.         *)
(***************************************************************************)
C1_NoDoubleClaim ==
    /\ \A w \in Workers :
         Analyzing(w) =>
            /\ item_to_analyze[w] # 0
            /\ analysis_in_progress[item_to_analyze[w]]
    /\ \A w1, w2 \in Workers :
         (w1 # w2 /\ Analyzing(w1) /\ Analyzing(w2))
            => item_to_analyze[w1] # item_to_analyze[w2]

\* One worker is in the resolver call for a backlog item while another
\* worker has scanned the backlog and found nothing to claim.
C1_Witness ==
    \E w1, w2 \in Workers :
       /\ w1 # w2
       /\ pc[w1] = "resolving"
       /\ YoutubeItem(item_to_analyze[w1]) \in Range(youtube_queue)
       /\ pc[w2] = "check"
       /\ \A i \in VideoIds : ~metadata_ready[i]

(***************************************************************************)
(* C2.  In the sequence of returned items every local item comes before     *)
(* every remote item, and a remote item has been returned only if the       *)
(* local queue is empty.                                                    *)
(***************************************************************************)
C2_LocalBeforeRemote ==
    /\ \A i, j \in 1 .. Len(returned) :
         (i < j /\ returned[i].source_type = "youtube")
            => returned[j].source_type = "youtube"
    /\ (\E i \in 1 .. Len(returned) : returned[i].source_type = "youtube")
          => local_queue = <<>>

\* A local item was returned while the ready buffer held an item, and the
\* remote item came next.
C2_Witness ==
    /\ Len(returned) = 2
    /\ returned[1].source_type = "local"
    /\ returned[2].source_type = "youtube"
    /\ metadata_ready[returned[2].n]
    /\ result = <<returned[2]>>

(***************************************************************************)
(* C3.  Outside the critical sections every known item is in exactly one    *)
(* of the local queue, the backlog and the ready buffer, or it has been     *)
(* dequeued and is in none.                                                 *)
(***************************************************************************)
C3_ExactlyOneCollection ==
    queue_lock = {} =>
       \A x \in KnownItems :
          \/ Holdings(x) = 1 /\ x \notin Range(returned)
          \/ Holdings(x) = 0 /\ x \in Range(returned)

(***************************************************************************)
(* C4.  The counts of get_stats add up: local_remaining + ready_buffer_size *)
(* + youtube_remaining + the number of items returned so far equals         *)
(* local_files_found + youtube_videos_loaded.                               *)
(***************************************************************************)
C4_CountsAddUp ==
    queue_lock = {} =>
       LET st == get_stats IN
          st.local_remaining + st.ready_buffer_size + st.youtube_remaining
                + Len(returned)
             = st.local_files_found + st.youtube_videos_loaded

(***************************************************************************)
(* C5.  A get_next_song call returns None exactly when the local queue,     *)
(* the ready buffer and the backlog are all empty; otherwise it returns an  *)
(* item, resolved or not.                                                   *)
(***************************************************************************)
C5_NoneOnlyWhenEmpty ==
    [][Returns =>
          (result' = <<>> <=>
              (local_queue = <<>> /\ ready_queue = <<>> /\ youtube_queue = <<>>))
      ]_vars

\* The call handed out a backlog item that is unresolved and in flight.
C5_Witness ==
    \E i \in VideoIds :
       /\ result = <<YoutubeItem(i)>>
       /\ analysis_in_progress[i]
       /\ ~metadata_ready[i]

(***************************************************************************)
(* C6.  An item in flight eventually is not in flight, has                  *)
(* metadata_ready set and has a descriptor, whether the resolver call       *)
(* returned or raised.                                                      *)
(***************************************************************************)
C6_NeverStuckInFlight ==
    \A i \in VideoIds :
       analysis_in_progress[i] ~>
          (~analysis_in_progress[i] /\ metadata_ready[i] /\ metadata[i] # <<>>)

\* The resolver call raised and the handler left the item resolved with the
\* baseline SongMetadata().
C6_Witness ==
    \E i \in raised :
       /\ ~analysis_in_progress[i]
       /\ metadata_ready[i]
       /\ metadata[i] = <<DefaultMetadata>>

(***************************************************************************)
(* C7.  As claimed: every get_next_song call that returns an item while a   *)
(* session is active calls update_session_progress with                     *)
(* total_songs - (len(backlog) + len(ready buffer)), lengths after the pop. *)
(***************************************************************************)
ProgressRecorded ==
    /\ current_session' # <<>>
    /\ current_session'[1].current_index =
          current_session[1].total_songs
             - (Len(youtube_queue') + Len(ready_queue'))
    /\ current_session'[1].play_count = current_session[1].play_count + 1
    /\ current_session'[1].current_url = result'[1].n
    /\ current_session'[1].total_songs = current_session[1].total_songs

C8_OffsetMonotone ==
    [][(current_session # <<>> /\ current_session' # <<>>)
          => /\ current_session'[1].current_index
                   >= current_session[1].current_index
             /\ current_session'[1].current_index >= 0
             /\ current_session'[1].current_index
                   <= current_session'[1].total_songs]_vars

(***************************************************************************)
(* C9.  An item whose resolver call raised is never dropped: once the       *)
(* handler has run it has metadata_ready set, it is not in the ready        *)
(* buffer, and it is in the backlog unless it has been returned; and        *)
(* repeated get_next_song calls eventually return it.                       *)
(***************************************************************************)
HandlerDone(i) ==
    \A w \in Workers : ~(pc[w] = "except" /\ item_to_analyze[w] = i)

C9_FailedItemPlayable ==
    /\ [](\A i \in raised :
            HandlerDone(i) =>
               /\ metadata_ready[i]
               /\ YoutubeItem(i) \notin Range(ready_queue)
               /\ \/ YoutubeItem(i) \in Range(youtube_queue)
                  \/ YoutubeItem(i) \in Range(returned))
    /\ \A i \in VideoIds :
          (i \in raised) ~> (YoutubeItem(i) \in Range(returned))

\* The failed item was handed out from the backlog after its handler ran.
C9_Witness ==
    \E i \in raised :
       /\ HandlerDone(i)
       /\ metadata[i] = <<DefaultMetadata>>
       /\ result = <<YoutubeItem(i)>>
       /\ youtube_queue = <<>>

(***************************************************************************)
(* C10.  Every get_next_song call completes, also when resolver calls       *)
(* never return.                                                            *)
(***************************************************************************)
C10_CallCompletes == (main_pc = "calling") ~> (main_pc = "idle")

\* A call has returned an item while a resolver call was still running.
C10_Witness ==
    /\ main_pc = "idle"
    /\ result # <<>>
    /\ \E w \in Workers : pc[w] = "resolving"

(***************************************************************************)
(* C11.  A worker that is in the call metadata_fetcher.get_metadata, or     *)
(* between the end of that call and its write-back, does not hold           *)
(* queue_lock: the claim's block has released it.                           *)
(***************************************************************************)
C11_ResolverOutsideLock ==
    \A w \in Workers : Analyzing(w) => w \notin queue_lock

\* While a worker was in the resolver call for an item, the playback loop
\* took the lock and was handed that very item.
C11_Witness ==
    \E w \in Workers :
       /\ pc[w] = "resolving"
       /\ queue_lock = {}
       /\ YoutubeItem(item_to_analyze[w]) \in Range(returned)

(***************************************************************************)
(* C12.  The local items are handed out in non-increasing priority order,   *)
(* before any remote item and whatever the backlog holds: the first n       *)
(* returned items, n the number of local files found, are local; the local  *)
(* items returned so far followed by the local queue are the n scanned      *)
(* items, each once, every higher tier before any lower tier.               *)
(***************************************************************************)
IsLocal(x) == x.source_type = "local"

C12_LocalByPriority ==
    initialized =>
       LET n == stats.local_files_found
           locals == SelectSeq(returned, IsLocal) \o local_queue
       IN /\ \A i \in 1 .. Len(returned) : i <= n => IsLocal(returned[i])
          /\ Len(locals) = n
          /\ \A i, j \in 1 .. n : i # j => locals[i] # locals[j]
          /\ \A i, j \in 1 .. n :
                i < j => locals[i].priority >= locals[j].priority
          /\ \A i \in 1 .. Len(local_queue) : IsLocal(local_queue[i])

\* Two local files of different tiers were scanned, the one of the lower
\* tier first; two calls returned the higher tier first while the backlog
\* was not empty and its item was already in the ready buffer.
C12_Witness ==
    /\ Len(returned) = 2
    /\ IsLocal(returned[1]) /\ IsLocal(returned[2])
    /\ returned[1].priority > returned[2].priority
    /\ returned[1].n > returned[2].n
    /\ youtube_queue # <<>>
    /\ ready_queue # <<>>

(***************************************************************************)
(* C13.  The ready buffer is first in, first out by completion: a step      *)
(* changes it only by appending the item whose write-back a worker is       *)
(* doing, or by a get_next_song return that removes its head; and a call    *)
(* made with the local queue empty and the ready buffer non-empty returns   *)
(* that head, the buffered item whose resolution completed earliest,        *)
(* wherever the item stands in the backlog.                                 *)
(***************************************************************************)
\* worker w completes the write-back of its item in this step
WritesBack(w) == pc[w] = "write" /\ pc'[w] = "count_read"

C13_ReadyInCompletionOrder ==
    [][/\ (Returns /\ local_queue = <<>> /\ ready_queue # <<>>)
             => /\ result' = <<Head(ready_queue)>>
                /\ ready_queue' = Tail(ready_queue)
       /\ (Returns /\ local_queue # <<>>) => ready_queue' = ready_queue
       /\ ~Returns
             => \/ ready_queue' = ready_queue
                \/ \E w \in Workers :
                      /\ WritesBack(w)
                      /\ ready_queue' =
                            Append(ready_queue, YoutubeItem(item_to_analyze[w]))
      ]_vars

\* The second backlog item was resolved before the first; both went to the
\* ready buffer and the call returned the second one, leaving the first.
C13_Witness ==
    /\ youtube_queue = <<YoutubeItem(1), YoutubeItem(2)>>
    /\ returned = <<YoutubeItem(2)>>
    /\ ready_queue = <<YoutubeItem(1)>>
    /\ result = <<YoutubeItem(2)>>

(***************************************************************************)
(* C14.  A get_next_song call made with the local queue and the ready       *)
(* buffer empty and the backlog non-empty returns the first backlog item    *)
(* that has metadata_ready set and was not routed to the ready buffer; if   *)
(* no backlog item has metadata_ready set it returns the head of the        *)
(* backlog, resolved or not.                                                *)
(***************************************************************************)
\* item n was sent to the ready buffer by its write-back (line 272)
Routed(n) == metadata[n] # <<>> /\ GoodEnough(metadata[n][1])

\* the least element of a non-empty set of positions
First(S) == CHOOSE i \in S : \A j \in S : i <= j

C14_FirstUnroutedReady ==
    [][(Returns /\ local_queue = <<>> /\ ready_queue = <<>>
           /\ youtube_queue # <<>>)
          => LET ready == { i \in 1 .. Len(youtube_queue) :
                              metadata_ready[youtube_queue[i].n] }
                 unrouted == { i \in ready : ~Routed(youtube_queue[i].n) }
             IN /\ unrouted # {}
                     => result' = <<youtube_queue[First(unrouted)]>>
                /\ ready = {} => result' = <<Head(youtube_queue)>>
      ]_vars

(***************************************************************************)
(* C15.  The dictionary returned by get_stats is the get_stats value of one *)
(* single state of the manager: one of the states the manager passed        *)
(* through between the moment the call held the lock and its return.        *)
(***************************************************************************)
C15_SnapshotAtomic ==
    [][(main_pc = "stats" /\ main_pc' = "idle") => ret'[1] \in seen]_vars

(***************************************************************************)
(* C16.  Session round trip: load_session of the id that the create_session *)
(* call made before it returned yields a session whose videos are the list  *)
(* passed to create_session, element by element, and whose total_songs is   *)
(* the length of that list.                                                 *)
(***************************************************************************)
C16_RoundTrip ==
    [][(/\ call.name = "create_session"
        /\ call'.name = "load_session"
        /\ call'.args = <<ret[1].session_id>>)
          => /\ ret' # <<>>
             /\ ret'[1].session_id = ret[1].session_id
             /\ ret'[1].videos = call.args[1]
             /\ ret'[1].total_songs = Len(call.args[1])]_vars

\* A session created with two different locators, the second one first, was
\* loaded a day later and came back with the same list.
C16_Witness ==
    /\ call.name = "load_session"
    /\ ret # <<>>
    /\ call.args = <<ret[1].session_id>>
    /\ ret[1].videos = <<2, 1>>
    /\ ret[1].total_songs = 2
    /\ ret[1].last_accessed > ret[1].created

(***************************************************************************)
(* C17.  update_session_progress is idempotent on the offset: a second call *)
(* with the same offset k and the same locator loc on the active session    *)
(* leaves current_index at k and current_url at loc, in memory and in the   *)
(* session's file, as the first call left them.                             *)
(***************************************************************************)
\* the JSON object of the active session's file after the step
PersistedAfter == session_files'[current_session'[1].session_id].data

C17_ProgressIdempotent ==
    [][(/\ call.name = "update_session_progress"
        /\ call'.name = "update_session_progress"
        /\ call' # call
        /\ call'.args = call.args
        /\ call.args[2] # 0
        /\ current_session # <<>>)
          => LET k == call.args[1]
                 loc == call.args[2]
                 before == session_files[current_session[1].session_id].data
             IN /\ current_session'[1].current_index = k
                /\ current_session'[1].current_url = loc
                /\ PersistedAfter.current_index = k
                /\ PersistedAfter.current_url = loc
                /\ current_session[1].current_index = k
                /\ current_session[1].current_url = loc
                /\ before.current_index = k
                /\ before.current_url = loc
                /\ current_session'[1].session_id = current_session[1].session_id
      ]_vars

\* Two updates are recorded on a loaded session; the offset in memory and
\* in the file is the k of the last call.
C17_Witness ==
    /\ call.name = "update_session_progress"
    /\ call.args = <<2, 2>>
    /\ current_session # <<>>
    /\ current_session[1].play_count = 2
    /\ current_session[1].current_index = 2
    /\ session_files[current_session[1].session_id].data.current_index = 2
    /\ session_files[current_session[1].session_id].data.current_url = 2
    /\ session_files[current_session[1].session_id].data.play_count = 2

(***************************************************************************)
(* C18.  cleanup_old_sessions(max_age_days, keep_recent), on the sessions   *)
(* of the directory (the files holding a JSON object of the SessionData     *)
(* fields): a session with fewer than keep_recent sessions used at least as *)
(* recently is never deleted, whatever its age; a session with keep_recent  *)
(* or more sessions used more recently and a last use before the cutoff is  *)
(* deleted; a session last used at or after the cutoff is never deleted;    *)
(* and the files that stay are unchanged.                                   *)
(***************************************************************************)
\* the step is a call of the named SessionManager method
Calls(name) == call' # call /\ call'.name = name

\* the sessions other than x used at least as recently, and more recently
AsRecent(sessions, x) ==
    { y \in sessions \ {x} : y.last_accessed >= x.last_accessed }
MoreRecent(sessions, x) ==
    { y \in sessions : y.last_accessed > x.last_accessed }

C19_LoadContract ==
    [][Calls("load_session")
          => LET id == call'.args[1] IN
                IF id \notin DOMAIN session_files
                      \/ session_files[id].kind # "json"
                THEN /\ ret' = <<>>
                     /\ current_session' = current_session
                ELSE LET data == session_files[id].data IN
                        /\ Len(ret') = 1
                        /\ \A k \in DOMAIN data \ {"last_accessed", "index"} :
                              ret'[1][k] = data[k]
                        /\ "index" \in DOMAIN data
                              => ret'[1].current_index = data.index
                        /\ ret'[1].last_accessed = clock
                        /\ ret'[1].session_id \in DOMAIN session_files'
                        /\ session_files'[ret'[1].session_id]
                              = JsonFile(asdict(ret'[1]))
                        /\ current_session' = ret'
      ]_vars

\* A load of an id without a file has returned None while the session of an
\* earlier load, read from a file of the older format, is active and
\* persisted.
C19_Witness ==
    /\ call.name = "load_session"
    /\ call.args[1] \notin DOMAIN session_files
    /\ ret = <<>>
    /\ current_session # <<>>
    /\ current_session[1].current_index = 1
    /\ current_session[1].session_id \in DOMAIN session_files
    /\ session_files[current_session[1].session_id]
          = JsonFile(asdict(current_session[1]))

C21_CacheOverwrites ==
    [][/\ Calls("get_metadata")
            => LET x == call'.args[1] IN
                  /\ LastSaved(x) # <<>> => ret' = LastSaved(x)
                  /\ (LastSaved(x) = <<>> /\ x \notin DOMAIN cache_db)
                        => ret' = <<>>
       /\ Calls("save_metadata")
            => \A y \in (1 .. MaxUrls) \ {call'.args[1]} :
                  get_metadata(cache_db', y) = get_metadata(cache_db, y)
      ]_vars

\* A lookup a day after the save has returned the descriptor of two genres
\* saved last for its url, while the other url holds another descriptor.
C21_Witness ==
    /\ call.name = "get_metadata"
    /\ ret # <<>>
    /\ ret = LastSaved(call.args[1])
    /\ Len(ret[1].genres) = 2
    /\ ret[1].source = "ACOUSTID"
    /\ cache_db[call.args[1]].last_accessed
          > cache_db[call.args[1]].timestamp
    /\ \E y \in DOMAIN saved : y # call.args[1] /\ saved[y] # ret

Claims(w) == pc[w] = "claim" /\ pc'[w] = "resolving"

\* every worker that was started has left analyze_metadata
AllExited == \A w \in Workers : pc[w] \in {"unstarted", "exited"}

(***************************************************************************)
(* C23.  As claimed: once cleanup() has set is_analyzing to false no worker *)
(* claims a backlog item, and all workers eventually exit.                  *)
(***************************************************************************)
C23_NoClaimAfterStop ==
    /\ [][cleaned => \A w \in Workers : ~Claims(w)]_vars
    /\ cleaned ~> AllExited

(***************************************************************************)
(* C23, amended.  Once cleanup() has set is_analyzing to false no worker    *)
(* begins an iteration of its loop: a worker at the loop test leaves the    *)
(* loop, and only a worker that had passed the test before the flag was     *)
(* set still makes the claim of that iteration; and all workers eventually  *)
(* exit.                                                                    *)
(***************************************************************************)
C23_StopsAtIterationBoundary ==
    /\ [][cleaned
            => \A w \in Workers :
                  (pc[w] = "loop" /\ pc'[w] # "loop") => pc'[w] = "exited"
         ]_vars
    /\ cleaned ~> AllExited

\* After cleanup() the worker has exited and has left in the backlog an item
\* that is neither resolved nor in flight.
C23_Witness ==
    /\ cleaned
    /\ AllExited
    /\ \E w \in Workers : pc[w] = "exited"
    /\ \E i \in 1 .. Len(youtube_queue) :
          /\ ~metadata_ready[youtube_queue[i].n]
          /\ ~analysis_in_progress[youtube_queue[i].n]

(***************************************************************************)
(* C24.  An update_session_progress call whose write of the session file    *)
(* fails returns normally, with current_index, current_url and play_count   *)
(* set on the active session in memory, and leaves every session file, the  *)
(* active session's among them, holding what it held before the call.       *)
(***************************************************************************)
C24_FailedWriteKeepsFile ==
    [][(Calls("update_session_progress") /\ Len(call'.args) = 3)
          => /\ current_session' # <<>>
             /\ current_session'[1].current_index = call'.args[1]
             /\ call'.args[2] # 0
                   => current_session'[1].current_url = call'.args[2]
             /\ current_session'[1].play_count
                   = current_session[1].play_count + 1
             /\ ret' = <<>>
             /\ session_files' = session_files
      ]_vars

(***************************************************************************)
(* C25.  The write-back of a descriptor the resolver returned moves the     *)
(* item into the ready buffer, so that it is in the ready buffer and no     *)
(* longer in the backlog, exactly when the descriptor is complete or its    *)
(* source is ACOUSTID or MUSICBRAINZ; otherwise the item is not in the      *)
(* ready buffer and is in the backlog if it was.                            *)
(***************************************************************************)
C25_RoutedWhenGoodEnough ==
    [][\A w \in Workers :
          WritesBack(w)
             => LET x == YoutubeItem(item_to_analyze[w])
                    m == fetched[w][1]
                IN IF \/ is_complete_metadata(m)
                      \/ m.source \in {"ACOUSTID", "MUSICBRAINZ"}
                   THEN /\ x \in Range(ready_queue')
                        /\ x \notin Range(youtube_queue')
                   ELSE /\ x \notin Range(ready_queue')
                        /\ x \in Range(youtube_queue)
                              => x \in Range(youtube_queue')
      ]_vars

(***************************************************************************)
(* C26.  An item a worker has finished with, its resolver call returned and *)
(* written back or raised and handled, has metadata_ready set,              *)
(* analysis_in_progress clear and acoustid_analyzed set.  Only a worker     *)
(* sets metadata_ready of a remote item, at the end of its work on it.      *)
(***************************************************************************)
C26_ProcessedItemFlags ==
    \A i \in VideoIds :
       metadata_ready[i]
          => /\ ~analysis_in_progress[i]
             /\ acoustid_analyzed[i]

(***************************************************************************)
(* C27.  Once the backlog is loaded (is_loading_playlists false) and holds  *)
(* no item that is neither resolved nor in flight, every worker eventually  *)
(* leaves its loop, provided every resolver call ends; so also when the     *)
(* backlog is empty from the start.                                         *)
(***************************************************************************)
C27_WorkersTerminate ==
    (/\ initialized
     /\ ~is_loading_playlists
     /\ \A i \in 1 .. Len(youtube_queue) :
           \/ metadata_ready[youtube_queue[i].n]
           \/ analysis_in_progress[youtube_queue[i].n])
       ~> AllExited

\* The session has no video, cleanup() was not called, and the worker has
\* left its loop.
C27_Witness ==
    /\ initialized
    /\ stats.youtube_videos_loaded = 0
    /\ ~cleaned
    /\ AllExited
    /\ \E w \in Workers : pc[w] = "exited"

(***************************************************************************)
(* C28.  The resolver is called at most once for each backlog item over the *)
(* whole run, exactly once for an item whose call raised; and an item is    *)
(* claimed only while its metadata_ready is false, which the end of the     *)
(* work on it, write-back or handler, sets.                                 *)
(***************************************************************************)
C28_NoRetry ==
    /\ \A i \in VideoIds :
          /\ invoked[i] <= 1
          /\ i \in raised => invoked[i] = 1
          /\ (invoked[i] = 1 /\ \A w \in Workers : item_to_analyze[w] # i)
                => metadata_ready[i]
    /\ \A w \in Workers :
          pc[w] = "resolving" => ~metadata_ready[item_to_analyze[w]]

\* The resolver call of an item raised, the handler ran, and a worker has
\* since scanned the backlog, where the item still is, claimed nothing and
\* left its loop, without cleanup().
C28_Witness ==
    \E i \in raised :
       /\ HandlerDone(i)
       /\ invoked[i] = 1
       /\ YoutubeItem(i) \in Range(youtube_queue)
       /\ ~cleaned
       /\ AllExited
       /\ \E w \in Workers : pc[w] = "exited"

(***************************************************************************)
(* C29.  After cleanup() has set the stop flag, a worker that is in         *)
(* _analyze_item, its resolver call ending after the shutdown, writes       *)
(* nothing back: its steps leave the fields of every item, the ready buffer *)
(* and the statistics counters as they are.                                 *)
(***************************************************************************)
C29_NoWriteAfterStop ==
    [][\A w \in Workers :
          (/\ cleaned
           /\ pc[w] \in {"resolving", "write", "except", "count_read",
                         "count_write"}
           /\ pc'[w] # pc[w])
             => /\ metadata' = metadata
                /\ metadata_ready' = metadata_ready
                /\ acoustid_analyzed' = acoustid_analyzed
                /\ analysis_in_progress' = analysis_in_progress
                /\ ready_queue' = ready_queue
                /\ stats' = stats
      ]_vars

(***************************************************************************)
(* C30.  No item, local or remote, appears twice in the sequence of the     *)
(* items get_next_song has returned.                                        *)
(***************************************************************************)
C30_ReturnedAtMostOnce ==
    \A i, j \in 1 .. Len(returned) : i # j => returned[i] # returned[j]

(***************************************************************************)
(* C31.  An item get_next_song has returned is never afterwards inserted    *)
(* into a collection: no step adds an occurrence of it to the local queue,  *)
(* to the backlog or to the ready buffer, the write-back of a worker that   *)
(* had it in flight when it was handed out included.                        *)
(***************************************************************************)
C31_ReturnedNeverInserted ==
    [][\A x \in Range(returned) :
          /\ Count(local_queue', x) <= Count(local_queue, x)
          /\ Count(youtube_queue', x) <= Count(youtube_queue, x)
          /\ Count(ready_queue', x) <= Count(ready_queue, x)
      ]_vars

(***************************************************************************)
(* C32.  While cleanup() has not been called, is_analyzing is false only    *)
(* when the enrichment is over: no backlog item is in flight and every      *)
(* backlog item has metadata_ready set.                                     *)
(***************************************************************************)
C32_AnalyzingFlagTruthful ==
    (~cleaned /\ ~is_analyzing)
       => \A i \in 1 .. Len(youtube_queue) :
             /\ ~analysis_in_progress[youtube_queue[i].n]
             /\ metadata_ready[youtube_queue[i].n]

\* every worker that was started is at its loop test or has left the loop
AllIdle == \A w \in Workers : pc[w] \in {"unstarted", "loop", "exited"}

(***************************************************************************)
(* C33.  No increment of stats['metadata_analyzed'] is lost: whenever every *)
(* worker is between two iterations or has exited, the counter is the       *)
(* number of resolver calls that returned, the calls begun less those that  *)
(* raised.                                                                  *)
(***************************************************************************)
C33_NoLostUpdate ==
    AllIdle
       => stats.metadata_analyzed
             = Cardinality({ i \in VideoIds : invoked[i] = 1 /\ i \notin raised })

(***************************************************************************)
(* C34.  Without cleanup() and with every resolver call ending, the workers *)
(* have not all left their loops while the backlog holds an item that is    *)
(* neither resolved nor in flight, and every item of the backlog eventually *)
(* has metadata_ready set unless it is dequeued first.                      *)
(***************************************************************************)
C34_BacklogGetsResolved ==
    /\ []((~cleaned /\ initialized /\ AllExited)
             => \A i \in 1 .. Len(youtube_queue) :
                   \/ metadata_ready[youtube_queue[i].n]
                   \/ analysis_in_progress[youtube_queue[i].n])
    /\ \A i \in VideoIds :
          (YoutubeItem(i) \in Range(youtube_queue))
             ~> \/ metadata_ready[i]
                \/ YoutubeItem(i) \notin Range(youtube_queue)
                \/ cleaned

\* Without cleanup() two workers have left their loops, two items are still
\* in the backlog, both resolved, and nothing was dequeued.
C34_Witness ==
    /\ ~cleaned
    /\ AllExited
    /\ Cardinality({ w \in Workers : pc[w] = "exited" }) = 2
    /\ Len(youtube_queue) = 2
    /\ \A i \in 1 .. Len(youtube_queue) : metadata_ready[youtube_queue[i].n]
    /\ returned = <<>>

\* the step of initialize()
Initializes == ~initialized /\ initialized'

(***************************************************************************)
(* C35.  After initialize() the backlog is the part of the active           *)
(* session's list of locators from its resume offset on, the whole list     *)
(* for an offset not above 0, in the order of the list, every item          *)
(* unresolved and not in flight; the ready buffer is empty and              *)
(* is_loading_playlists is false.                                           *)
(***************************************************************************)
C35_BacklogIsSuffix ==
    [][Initializes
          => LET session == current_session'[1]
                 offset == Max(session.current_index, 0)
             IN /\ youtube_queue' =
                      [k \in 1 .. (session.total_songs - offset) |->
                          YoutubeItem(offset + k)]
                /\ \A i \in 1 .. Len(youtube_queue') :
                      /\ ~metadata_ready'[youtube_queue'[i].n]
                      /\ ~analysis_in_progress'[youtube_queue'[i].n]
                /\ ready_queue' = <<>>
                /\ ~is_loading_playlists'
      ]_vars

(***************************************************************************)
(* C36.  _initialize_session resumes the most recently used session without *)
(* asking when it was used less than ResumeHours ago and loads, resumes the *)
(* session the user chooses otherwise, and creates a new one in every other *)
(* outcome; whichever it does, it makes one session active and loads the    *)
(* backlog once: no session is created while one is active, and             *)
(* _load_session_videos is called only while the backlog is not loaded yet  *)
(* (is_loading_playlists still true).                                       *)
(***************************************************************************)
C36_OneSessionOneLoad ==
    [][/\ Calls("create_session") => current_session = <<>>
       /\ Calls("_load_session_videos") => is_loading_playlists]_vars

(***************************************************************************)
(* C37.  list_sessions returns every session whose file load_session        *)
(* accepts: after a call of list_sessions, each file of the directory that  *)
(* load_session would read into a SessionData, a file of the older format   *)
(* with `index` for `current_index` included, has its session in the list   *)
(* returned.                                                                *)
(***************************************************************************)
C37_ListedIfLoadable ==
    call.name = "list_sessions" =>
        \A id \in DOMAIN session_files :
            ReadSession(session_files, id) # <<>> =>
                \E i \in 1 .. Len(ret[1]) : ret[1][i].session_id = id

(***************************************************************************)
(* C38.  The sweep of the cache runs at the construction of MetadataCache   *)
(* and at no other moment: the construction deletes the rows whose          *)
(* timestamp is more than max_age_days before the current time and leaves   *)
(* every other row as it was, and no later step deletes a row, however old  *)
(* it has become.  A get_metadata that finds a row sets its last_accessed   *)
(* to the current time and changes nothing else; a save_metadata leaves its *)
(* url a row whose timestamp is the current time and touches no other row.  *)
(***************************************************************************)
C38_SweepAtConstructionOnly ==
    [][/\ Calls("__init__") =>
            /\ DOMAIN cache_db' =
                  { u \in DOMAIN cache_db :
                      cache_db[u].timestamp >= clock - call'.args[1] * Day }
            /\ \A u \in DOMAIN cache_db' : cache_db'[u] = cache_db[u]
       /\ ~Calls("__init__") => DOMAIN cache_db \subseteq DOMAIN cache_db'
       /\ Calls("get_metadata") =>
            /\ DOMAIN cache_db' = DOMAIN cache_db
            /\ \A u \in DOMAIN cache_db :
                  cache_db'[u] =
                     IF u = call'.args[1]
                     THEN [cache_db[u] EXCEPT !.last_accessed = clock]
                     ELSE cache_db[u]
       /\ Calls("save_metadata") =>
            /\ DOMAIN cache_db' = DOMAIN cache_db \cup {call'.args[1]}
            /\ cache_db'[call'.args[1]].timestamp = clock
            /\ \A u \in DOMAIN cache_db \ {call'.args[1]} :
                  cache_db'[u] = cache_db[u]]_vars

\* The construction has deleted the rows of the other urls and kept that
\* of url 1, saved at the very second of the sweep; nothing has been saved
\* since; a day later a get_metadata has found the row and set its
\* last_accessed, and it is still in the table.
C38_Witness ==
    /\ call.name = "get_metadata"
    /\ call.args = <<1>>
    /\ ret # <<>>
    /\ DOMAIN cache_db = {1}
    /\ saved = <<>>
    /\ cache_db[1].timestamp = RetainDays * Day
    /\ cache_db[1].last_accessed = clock
    /\ clock = (RetainDays + 1) * Day

=========================
